---- MODULE Spec2Model ----
(***************************************************************************)
(* Model of gg-mcp:                                                        *)
(*   - gg_api_core/utils.py      get_gitguardian_client (auth selection)   *)
(*   - scripts/publish_to_pypi.py          build-and-upload script         *)
(*   - scripts/publish_to_mcp_registry.py  registry-publish script         *)
(*                                                                         *)
(* A Python str is a sequence of one-character strings, so that lower()    *)
(* and strip() are computed and not assumed.  One behaviour is one run of  *)
(* one of the three programs (prog), chosen in Init with its inputs.       *)
(***************************************************************************)
EXTENDS Integers, Sequences, FiniteSets, TLC

\* Largest number of blanks the operator types before or after an answer.
MaxPad == 1

(***************************************************************************)
(* Python values                                                           *)
(***************************************************************************)
\* Python's None, where a str is expected: no str is this sequence.
None == <<"None">>

\* bool(s) for s a str or None.
Truthy(s) == s /= None /\ s /= <<>>

Whitespace == {" ", "\t", "\n"}

\* str.lower() on one character (the letters the inputs use).
LowerChar(c) ==
    CASE c = "T" -> "t" [] c = "O" -> "o" [] c = "K" -> "k" [] c = "E" -> "e"
      [] c = "N" -> "n" [] c = "W" -> "w" [] c = "B" -> "b" [] c = "A" -> "a"
      [] c = "S" -> "s" [] c = "I" -> "i" [] c = "C" -> "c" [] c = "Y" -> "y"
      [] OTHER -> c

Lower(s) == [i \in 1..Len(s) |-> LowerChar(s[i])]

RECURSIVE LStrip(_)
LStrip(s) == IF s /= <<>> /\ Head(s) \in Whitespace THEN LStrip(Tail(s)) ELSE s

RECURSIVE RStrip(_)
RStrip(s) ==
    IF s /= <<>> /\ s[Len(s)] \in Whitespace
    THEN RStrip(SubSeq(s, 1, Len(s) - 1)) ELSE s

\* str.strip()
Strip(s) == RStrip(LStrip(s))

\* n blanks
RECURSIVE Blanks(_)
Blanks(n) == IF n = 0 THEN <<>> ELSE <<" ">> \o Blanks(n - 1)

\* What an operator may type for one of the texts in cores.
Typed(cores) ==
    { Blanks(l) \o c \o Blanks(r) : l \in 0..MaxPad, r \in 0..MaxPad, c \in cores }

(***************************************************************************)
(* State                                                                   *)
(***************************************************************************)
VARIABLES
    prog,         \* "client", "pypi" or "registry": the program of this run
    pc,           \* position in that program
    environ,      \* os.environ: variable name -> str or None (unset)
    argv,         \* sys.argv[1:]
    server_name,  \* argument of get_gitguardian_client
    auth_method,  \* local of get_gitguardian_client
    api_key,      \* local of get_gitguardian_client
    ctor_calls,   \* calls of GitGuardianClient(...): arguments and outcome
    returned,     \* <<client>> once get_gitguardian_client returned
    raised,       \* <<exception>> once get_gitguardian_client raised
    dist_exists,  \* Path("dist").exists()
    server_json,  \* the file server.json: NoFile or its content
    config,       \* local of validate_server_json
    valid,        \* <<b>> once validate_server_json returned b
    token,        \* local of upload_to_pypi
    log,          \* external actions so far: commands, prompts, rmtree
    exit_code     \* <<n>> once the script exited with status n

vars == <<prog, pc, environ, argv, server_name, auth_method, api_key, ctor_calls,
          returned, raised, dist_exists, server_json, config, valid, token, log,
          exit_code>>

clientVars == <<server_name, auth_method, api_key, ctor_calls, returned, raised>>
scriptVars == <<dist_exists, server_json, config, valid, token, log, exit_code>>

(***************************************************************************)
(* gg_api_core/utils.py                                                    *)
(***************************************************************************)
S_token == <<"t", "o", "k", "e", "n">>
S_web == <<"w", "e", "b">>
S_basic == <<"b", "a", "s", "i", "c">>

AuthMethodValues ==
    { None, <<>>, S_token, <<"T", "O", "K", "E", "N">>, <<"T", "o", "k", "e", "n">>,
      S_web, <<"W", "E", "B">>, S_basic, <<"B", "a", "s", "i", "c">> }

ApiKeyValues == { None, <<>>, <<"k", "1">>, <<"s", "e", "c", "r", "e", "t">> }

ApiUrlValues == { None, <<"u">> }

ServerNames == { None, <<"s", "1">>, <<"s", "2">> }

\* Exceptions the client constructor may raise.
CtorExceptions ==
    { [type |-> "RuntimeError", origin |-> "GitGuardianClient", msg |-> <<>>],
      [type |-> "ValueError", origin |-> "GitGuardianClient", msg |-> <<>>] }

\* os.environ.get(name, default)
EnvGet(name, default) == IF environ[name] = None THEN default ELSE environ[name]

\* The object a call GitGuardianClient(**args) builds: opaque, known by the
\* arguments it was built from (use_oauth: "True", or "omitted" when the call
\* does not pass it).
GitGuardianClient(args) == [args |-> args, server_name |-> None]

\* client.server_name = server_name
SetServerName(client, name) == [client EXCEPT !.server_name = name]

MissingKeyError ==
    [type |-> "ValueError", origin |-> "get_gitguardian_client",
     msg |-> <<"GITGUARDIAN_API_KEY environment variable must be set for token authentication">>]

UnsupportedMethodError(method) ==
    [type |-> "ValueError", origin |-> "get_gitguardian_client",
     msg |-> <<"Unsupported authentication method: ", method,
               ". Supported methods: 'token', 'web'">>]

\* Variant: the selector is compared as given, without .lower().
ReadAuthMethod_NoLower == EnvGet("GITGUARDIAN_AUTH_METHOD", S_web)

\* auth_method = os.environ.get("GITGUARDIAN_AUTH_METHOD", "web").lower()
ReadAuthMethod == Lower(EnvGet("GITGUARDIAN_AUTH_METHOD", S_web))

\* Variant: the token branch builds the client the way the web branch does.
TokenCtorArgs_Oauth(key, url) == [api_key |-> None, api_url |-> url, use_oauth |-> "True"]

\* the arguments of the constructor call of the token branch
TokenCtorArgs(key, url) == [api_key |-> key, api_url |-> url, use_oauth |-> "omitted"]

\* Variant: the web branch hands the static key to the constructor.
WebCtorArgs_Key(url) ==
    [api_key |-> environ["GITGUARDIAN_API_KEY"], api_url |-> url, use_oauth |-> "True"]

\* the arguments of the constructor call of the web branch
WebCtorArgs(url) == [api_key |-> None, api_url |-> url, use_oauth |-> "True"]

\* Variant: the except clause raises a new error in place of the caught one.
Reraise_Wrapped(e) ==
    [type |-> "RuntimeError", origin |-> "get_gitguardian_client", msg |-> <<>>]

\* what the except clause of a try around the constructor re-raises
Reraise(e) == e

\* try: client = GitGuardianClient(...); client.server_name = ...; return client
\* except Exception: log; raise
TryConstruct(args) ==
    \/ /\ ctor_calls' = Append(ctor_calls, [args |-> args, exc |-> <<>>])
       /\ returned' = << SetServerName(GitGuardianClient(args), server_name) >>
       /\ UNCHANGED raised
    \/ \E e \in CtorExceptions :
          /\ ctor_calls' = Append(ctor_calls, [args |-> args, exc |-> <<e>>])
          /\ raised' = <<Reraise(e)>>
          /\ UNCHANGED returned

ReadEnv ==
    /\ prog = "client" /\ pc = "start"
    /\ auth_method' = ReadAuthMethod
    /\ pc' = "branch"
    /\ UNCHANGED <<prog, environ, argv, server_name, api_key, ctor_calls, returned,
                   raised, scriptVars>>

\* if auth_method == "token": api_key = os.environ.get(...); if not api_key: raise
TokenCheckKey ==
    /\ prog = "client" /\ pc = "branch"
    /\ auth_method = S_token
    /\ api_key' = environ["GITGUARDIAN_API_KEY"]
    /\ IF Truthy(environ["GITGUARDIAN_API_KEY"])
       THEN pc' = "token_construct" /\ UNCHANGED raised
       ELSE pc' = "done" /\ raised' = <<MissingKeyError>>
    /\ UNCHANGED <<prog, environ, argv, server_name, auth_method, ctor_calls,
                   returned, scriptVars>>

TokenConstruct ==
    /\ prog = "client" /\ pc = "token_construct"
    /\ TryConstruct(TokenCtorArgs(api_key, environ["GITGUARDIAN_API_URL"]))
    /\ pc' = "done"
    /\ UNCHANGED <<prog, environ, argv, server_name, auth_method, api_key, scriptVars>>

WebConstruct ==
    /\ prog = "client" /\ pc = "branch"
    /\ auth_method /= S_token /\ auth_method = S_web
    /\ TryConstruct(WebCtorArgs(environ["GITGUARDIAN_API_URL"]))
    /\ pc' = "done"
    /\ UNCHANGED <<prog, environ, argv, server_name, auth_method, api_key, scriptVars>>

Unsupported ==
    /\ prog = "client" /\ pc = "branch"
    /\ auth_method /= S_token /\ auth_method /= S_web
    /\ raised' = <<UnsupportedMethodError(auth_method)>>
    /\ pc' = "done"
    /\ UNCHANGED <<prog, environ, argv, server_name, auth_method, api_key, ctor_calls,
                   returned, scriptVars>>

(***************************************************************************)
(* Both scripts: external actions                                          *)
(***************************************************************************)
\* Exit statuses of an external command.
ReturnCodes == {0, 1}

\* One external action: a command run to completion (rc its exit status,
\* data the TWINE_PASSWORD handed to it, oserror: subprocess.run could not
\* start it), a prompt (data the line typed) or a file-system call.
Event(cmd, rc, data, oserror) == [cmd |-> cmd, rc |-> rc, data |-> data, oserror |-> oserror]

Cmd(cmd, rc) == Event(cmd, rc, <<>>, FALSE)

Prompt(text, typed) == Event(<<"input", text>>, 0, typed, FALSE)

S_y == <<"y">>

\* What the operator may answer to a [y/N] prompt.
AnswerCores == { <<>>, <<"y">>, <<"Y">>, <<"n">>, <<"y", "e", "s">> }

\* Variant: any answer that starts with y counts as a yes.
Confirmed_Prefix(typed) ==
    Lower(Strip(typed)) /= <<>> /\ Head(Lower(Strip(typed))) = "y"

\* response = input(...).strip().lower(); the test `response != "y"` negated
Confirmed(typed) == Lower(Strip(typed)) = S_y

Exit(n) == /\ exit_code' = <<n>>
           /\ pc' = "done"

(***************************************************************************)
(* scripts/publish_to_pypi.py                                              *)
(***************************************************************************)
PypiArgvs == { <<>>, <<"--test">>, <<"-t">> }

\* test_mode = "--test" in sys.argv or "-t" in sys.argv
test_mode == \E i \in DOMAIN argv : argv[i] = "--test" \/ argv[i] = "-t"

\* the environment variable upload_to_pypi reads the token from
TokenVariable(test) == IF test THEN "TEST_PYPI_TOKEN" ELSE "PYPI_TOKEN"

\* cmd = ["uv", "run", "twine", "upload"] (+ ["--repository", "testpypi"]) + ["dist/*"]
TwineCmd(test) ==
    <<"uv", "run", "twine", "upload">>
      \o (IF test THEN <<"--repository", "testpypi">> ELSE <<>>) \o <<"dist/*">>

\* f"Enter your {'TestPyPI' if test else 'PyPI'} API token: "
TokenPromptText(test) ==
    IF test THEN "Enter your TestPyPI API token: " ELSE "Enter your PyPI API token: "

\* What the operator may type at the token prompt.
TokenCores == { <<>>, <<"o", "p">> }

\* Variant: the typed token is used as typed.
PromptedToken_Raw(typed) == typed

\* token = input(...).strip()
PromptedToken(typed) == Strip(typed)

\* check_prerequisites() and main's `return 1`
PypiCheckPrerequisites ==
    /\ prog = "pypi" /\ pc = "start"
    /\ \E rc \in ReturnCodes :
          /\ log' = Append(log, Cmd(<<"which", "uv">>, rc))
          /\ IF rc /= 0 THEN Exit(1) ELSE pc' = "clean" /\ UNCHANGED exit_code
    /\ UNCHANGED <<prog, environ, argv, clientVars, dist_exists, server_json, config,
                   valid, token>>

\* clean_dist()
PypiCleanDist ==
    /\ prog = "pypi" /\ pc = "clean"
    /\ IF dist_exists
       THEN log' = log \o << Event(<<"Path.exists", "dist">>, 0, <<"True">>, FALSE),
                             Event(<<"shutil.rmtree", "dist">>, 0, <<>>, FALSE) >>
       ELSE log' = Append(log, Event(<<"Path.exists", "dist">>, 0, <<"False">>, FALSE))
    /\ dist_exists' = FALSE
    /\ pc' = "build"
    /\ UNCHANGED <<prog, environ, argv, clientVars, server_json, config, valid, token,
                   exit_code>>

\* build_package() and main's `return 1`
PypiBuildPackage ==
    /\ prog = "pypi" /\ pc = "build"
    /\ \E rc \in ReturnCodes, built \in BOOLEAN :
          /\ log' = Append(log, Cmd(<<"uv", "build">>, rc))
          /\ dist_exists' = built
          /\ IF rc /= 0 THEN Exit(1) ELSE pc' = "confirm" /\ UNCHANGED exit_code
    /\ UNCHANGED <<prog, environ, argv, clientVars, server_json, config, valid, token>>

\* response = input("Continue? [y/N]: ").strip().lower(); if response != "y": return 0
PypiConfirm ==
    /\ prog = "pypi" /\ pc = "confirm"
    /\ \E typed \in Typed(AnswerCores) :
          /\ log' = Append(log, Prompt("Continue? [y/N]: ", typed))
          /\ IF Confirmed(typed) THEN pc' = "upload_token" /\ UNCHANGED exit_code
             ELSE Exit(0)
    /\ UNCHANGED <<prog, environ, argv, clientVars, dist_exists, server_json, config,
                   valid, token>>

\* upload_to_pypi, lines 89-97: the token from the environment, else the prompt
PypiUploadToken ==
    /\ prog = "pypi" /\ pc = "upload_token"
    /\ IF Truthy(environ[TokenVariable(test_mode)])
       THEN /\ token' = environ[TokenVariable(test_mode)]
            /\ pc' = "upload_run"
            /\ UNCHANGED <<log, exit_code>>
       ELSE \E typed \in Typed(TokenCores) :
            /\ log' = Append(log, Prompt(TokenPromptText(test_mode), typed))
            /\ token' = PromptedToken(typed)
            /\ IF Truthy(PromptedToken(typed))
               THEN pc' = "upload_run" /\ UNCHANGED exit_code
               ELSE Exit(1)
    /\ UNCHANGED <<prog, environ, argv, clientVars, dist_exists, server_json, config,
                   valid>>

\* the exit status main returns once twine exited with rc
UploadStatus(rc) == IF rc /= 0 THEN 1 ELSE 0

\* upload_to_pypi, lines 99-134, and the end of main
PypiUploadRun ==
    /\ prog = "pypi" /\ pc = "upload_run"
    /\ \E rc \in ReturnCodes :
          /\ log' = Append(log, Event(TwineCmd(test_mode), rc, token, FALSE))
          /\ Exit(UploadStatus(rc))
    /\ UNCHANGED <<prog, environ, argv, clientVars, dist_exists, server_json, config,
                   valid, token>>

(***************************************************************************)
(* scripts/publish_to_mcp_registry.py                                      *)
(***************************************************************************)
RegistryArgvs == { <<>>, <<"--dry-run">>, <<"-d">> }

\* Variant: only the long flag is recognised.
dry_run_LongOnly == \E i \in DOMAIN argv : argv[i] = "--dry-run"

\* dry_run = "--dry-run" in sys.argv or "-d" in sys.argv
dry_run == \E i \in DOMAIN argv : argv[i] = "--dry-run" \/ argv[i] = "-d"

\* required_fields = ["name", "description", "version", "packages"]
required_fields == <<"name", "description", "version", "packages">>

RequiredSet == { required_fields[i] : i \in DOMAIN required_fields }

\* The JSON values server.json gives "packages", by what the code does with
\* them.  kind: the JSON type (and whether the value is falsy in Python);
\* first: the kind of element 0 of a non-empty list.
FirstKinds == { "obj_pypi", "obj_npm", "obj_noreg", "str", "num", "null" }

PackagesValues ==
    { [kind |-> k, first |-> "none"] :
         k \in { "null", "zero", "num", "emptystr", "str", "emptylist", "emptyobj", "obj" } }
    \cup { [kind |-> "list", first |-> f] : f \in FirstKinds }

Absent == [kind |-> "absent", first |-> "none"]

\* The contents server.json may have: text that is no JSON (wellformed
\* FALSE); a JSON number; a JSON array of strings (fields: its elements); a
\* JSON object (fields: its keys among the required ones).
Manifests ==
    { [wellformed |-> FALSE, top |-> "none", fields |-> {}, packages |-> Absent] }
    \cup { [wellformed |-> TRUE, top |-> "num", fields |-> {}, packages |-> Absent] }
    \cup { [wellformed |-> TRUE, top |-> "list", fields |-> f, packages |-> Absent] :
              f \in { {}, RequiredSet } }
    \cup { [wellformed |-> TRUE, top |-> "obj", fields |-> f, packages |-> Absent] :
              f \in SUBSET (RequiredSet \ {"packages"}) }
    \cup { [wellformed |-> TRUE, top |-> "obj", fields |-> f \cup {"packages"},
            packages |-> v] :
              f \in SUBSET (RequiredSet \ {"packages"}), v \in PackagesValues }

\* server.json does not exist
NoFile == [wellformed |-> FALSE, top |-> "nofile", fields |-> {}, packages |-> Absent]

\* config outside validate_server_json, where the name is not bound
Unbound == [wellformed |-> FALSE, top |-> "unbound", fields |-> {}, packages |-> Absent]

\* bool(v) of a JSON value
JsonTruthy(v) == v.kind \in { "num", "str", "list", "obj" }

\* v[0] raises (TypeError for a number, KeyError for an object, whose keys
\* are strings)
IndexRaises(v) == v.kind \in { "num", "obj" }

\* the kind of v[0]
IndexZero(v) == IF v.kind = "str" THEN "str" ELSE v.first

\* package.get(...) raises AttributeError unless package is an object
GetRaises(package) == package \notin { "obj_pypi", "obj_npm", "obj_noreg" }

\* `field in config` raises TypeError when config is a number
InRaises(c) == c.top = "num"

\* the first field of required_fields that is not in config, 0 if none
RECURSIVE FirstMissing(_, _)
FirstMissing(c, i) ==
    IF i > Len(required_fields) THEN 0
    ELSE IF required_fields[i] \notin c.fields THEN i
    ELSE FirstMissing(c, i + 1)

\* the loop of lines 80-83 returns False
MissingField(c) == FirstMissing(c, 1) /= 0

\* config['name'] raises TypeError when config is an array
SubscriptRaises(c) == c.top = "list"

\* lines 93-101: the curl probe is reached
ReachesCurl(c) ==
    /\ c.wellformed /\ ~InRaises(c) /\ ~MissingField(c) /\ ~SubscriptRaises(c)
    /\ JsonTruthy(c.packages) /\ ~IndexRaises(c.packages)
    /\ ~GetRaises(IndexZero(c.packages))
    /\ IndexZero(c.packages) = "obj_pypi"

\* lines 93-98 raise, which `except Exception` turns into False
DisplayRaises(c) ==
    /\ JsonTruthy(c.packages)
    /\ IndexRaises(c.packages) \/ GetRaises(IndexZero(c.packages))

\* What validate_server_json() returns for the content c of server.json,
\* curlError: the curl probe, if reached, could not be started.
validate_server_json(c, curlError) ==
    IF ~c.wellformed THEN FALSE                \* json.JSONDecodeError
    ELSE IF InRaises(c) THEN FALSE             \* except Exception
    ELSE IF MissingField(c) THEN FALSE         \* line 83
    ELSE IF SubscriptRaises(c) THEN FALSE      \* except Exception
    ELSE IF DisplayRaises(c) THEN FALSE        \* except Exception
    ELSE IF ReachesCurl(c) /\ curlError THEN FALSE
    ELSE TRUE

CurlCmd ==
    <<"curl", "-s", "-o", "/dev/null", "-w", "%{http_code}",
      "https://pypi.org/pypi/{identifier}/json">>

\* check_github_auth()
check_github_auth == TRUE

\* check_prerequisites() and main's `return 1`
RegCheckPrerequisites ==
    /\ prog = "registry" /\ pc = "start"
    /\ \E rcWhich \in ReturnCodes, rcVersion \in ReturnCodes :
          IF rcWhich /= 0
          THEN /\ log' = Append(log, Cmd(<<"which", "mcp-publisher">>, rcWhich))
               /\ Exit(1)
          ELSE /\ log' = log \o << Cmd(<<"which", "mcp-publisher">>, rcWhich),
                                   Cmd(<<"mcp-publisher", "--version">>, rcVersion) >>
               /\ IF server_json = NoFile THEN Exit(1)
                  ELSE pc' = "validate" /\ UNCHANGED exit_code
    /\ UNCHANGED <<prog, environ, argv, clientVars, dist_exists, server_json, config,
                   valid, token>>

\* validate_server_json() and main's `return 1`
RegValidateServerJson ==
    /\ prog = "registry" /\ pc = "validate"
    /\ config' = server_json
    /\ \E rc \in ReturnCodes, curlError \in BOOLEAN :
          /\ ReachesCurl(server_json) \/ (rc = 0 /\ ~curlError)
          /\ log' = IF ReachesCurl(server_json)
                    THEN Append(log, Event(CurlCmd, IF curlError THEN 0 ELSE rc, <<>>,
                                           curlError))
                    ELSE log
          /\ valid' = <<validate_server_json(server_json, curlError)>>
          /\ IF validate_server_json(server_json, curlError)
             THEN pc' = "confirm" /\ UNCHANGED exit_code
             ELSE Exit(1)
    /\ UNCHANGED <<prog, environ, argv, clientVars, dist_exists, server_json, token>>

\* main, lines 203-221: check_github_auth() and the confirmation
RegConfirm ==
    /\ prog = "registry" /\ pc = "confirm"
    /\ config' = Unbound
    /\ IF ~check_github_auth THEN Exit(1) /\ UNCHANGED log
       ELSE IF dry_run THEN pc' = "publish" /\ UNCHANGED <<log, exit_code>>
       ELSE \E typed \in Typed(AnswerCores) :
               /\ log' = Append(log, Prompt("Continue with publication? [y/N]: ", typed))
               /\ IF Confirmed(typed) THEN pc' = "login" /\ UNCHANGED exit_code
                  ELSE Exit(0)
    /\ UNCHANGED <<prog, environ, argv, clientVars, dist_exists, server_json, valid,
                   token>>

\* Variant: main does not call login_github().
RegLoginGithub_Skipped ==
    /\ prog = "registry" /\ pc = "login"
    /\ pc' = "publish"
    /\ UNCHANGED <<prog, environ, argv, clientVars, dist_exists, server_json, config,
                   valid, token, log, exit_code>>

\* login_github(); main goes on to publish whatever it returns
RegLoginGithub ==
    /\ prog = "registry" /\ pc = "login"
    /\ \E typed \in Typed(AnswerCores), rc \in ReturnCodes :
          /\ Confirmed(typed) \/ rc = 0
          /\ log' = IF Confirmed(typed)
                    THEN log \o << Prompt("Continue with GitHub login? [y/N]: ", typed),
                                   Cmd(<<"mcp-publisher", "login", "github">>, rc) >>
                    ELSE Append(log, Prompt("Continue with GitHub login? [y/N]: ", typed))
    /\ pc' = "publish"
    /\ UNCHANGED <<prog, environ, argv, clientVars, dist_exists, server_json, config,
                   valid, token, exit_code>>

\* Variant: the result of the publish command is not looked at.
PublishStatus_Ignored(rc) == 0

\* the exit status main returns once `mcp-publisher publish` exited with rc
PublishStatus(rc) == IF rc /= 0 THEN 1 ELSE 0

\* publish_to_registry(dry_run) and the end of main
RegPublish ==
    /\ prog = "registry" /\ pc = "publish"
    /\ IF dry_run THEN Exit(0) /\ UNCHANGED log
       ELSE \E rc \in ReturnCodes :
               /\ log' = Append(log, Cmd(<<"mcp-publisher", "publish">>, rc))
               /\ Exit(PublishStatus(rc))
    /\ UNCHANGED <<prog, environ, argv, clientVars, dist_exists, server_json, config,
                   valid, token>>

(***************************************************************************)
(* Initial states and next-state relation                                  *)
(***************************************************************************)
EnvNames ==
    { "GITGUARDIAN_AUTH_METHOD", "GITGUARDIAN_API_KEY", "GITGUARDIAN_API_URL",
      "PYPI_TOKEN", "TEST_PYPI_TOKEN" }

InitCommon ==
    /\ pc = "start"
    /\ auth_method = None /\ api_key = None
    /\ ctor_calls = <<>> /\ returned = <<>> /\ raised = <<>>
    /\ config = Unbound /\ valid = <<>> /\ token = None
    /\ log = <<>> /\ exit_code = <<>>

InitClient ==
    /\ prog = "client"
    /\ \E m \in AuthMethodValues, k \in ApiKeyValues, u \in ApiUrlValues :
          environ = [n \in EnvNames |->
                        CASE n = "GITGUARDIAN_AUTH_METHOD" -> m
                          [] n = "GITGUARDIAN_API_KEY" -> k
                          [] n = "GITGUARDIAN_API_URL" -> u
                          [] OTHER -> None]
    /\ server_name \in ServerNames
    /\ argv = <<>> /\ dist_exists = FALSE /\ server_json = NoFile

PypiTokenValues == { None, <<>>, <<"p">> }
TestPypiTokenValues == { None, <<>>, <<"t">> }

InitPypi ==
    /\ prog = "pypi"
    /\ argv \in PypiArgvs
    /\ \E p \in PypiTokenValues, t \in TestPypiTokenValues :
          environ = [n \in EnvNames |->
                        CASE n = "PYPI_TOKEN" -> p
                          [] n = "TEST_PYPI_TOKEN" -> t
                          [] OTHER -> None]
    /\ dist_exists \in BOOLEAN
    /\ server_name = None /\ server_json = NoFile

InitRegistry ==
    /\ prog = "registry"
    /\ argv \in RegistryArgvs
    /\ server_json \in {NoFile} \cup Manifests
    /\ environ = [n \in EnvNames |-> None]
    /\ dist_exists = FALSE /\ server_name = None

Init == InitCommon /\ (InitClient \/ InitPypi \/ InitRegistry)

Next ==
    \/ ReadEnv
    \/ TokenCheckKey
    \/ TokenConstruct
    \/ WebConstruct
    \/ Unsupported
    \/ PypiCheckPrerequisites
    \/ PypiCleanDist
    \/ PypiBuildPackage
    \/ PypiConfirm
    \/ PypiUploadToken
    \/ PypiUploadRun
    \/ RegCheckPrerequisites
    \/ RegValidateServerJson
    \/ RegConfirm
    \/ RegLoginGithub
    \/ RegPublish

Spec == Init /\ [][Next]_vars

(***************************************************************************)
(* Properties of get_gitguardian_client                                    *)
(***************************************************************************)
ClientDone == prog = "client" /\ pc = "done"

KeyEnv == environ["GITGUARDIAN_API_KEY"]
UrlEnv == environ["GITGUARDIAN_API_URL"]
MethodEnv == environ["GITGUARDIAN_AUTH_METHOD"]

\* the call raised the factory's own configuration error for a missing key
RaisedMissingKey == raised = <<MissingKeyError>> /\ returned = <<>>

\* how a key-authenticated client is built: that key, no OAuth flag
KeyArgs == [api_key |-> KeyEnv, api_url |-> UrlEnv, use_oauth |-> "omitted"]

\* how an OAuth-flagged client is built: no key, the OAuth flag
OauthArgs == [api_key |-> None, api_url |-> UrlEnv, use_oauth |-> "True"]

\* the call returned the client built from a, carrying the server name
Returned(a) ==
    /\ raised = <<>>
    /\ Len(returned) = 1
    /\ returned[1].args = a
    /\ returned[1].server_name = server_name

ReturnedKeyClient == Returned(KeyArgs)

ReturnedOauthClient == Returned(OauthArgs)

CtorRaised == ctor_calls /= <<>> /\ ctor_calls[Len(ctor_calls)].exc /= <<>>

\* C1 as the claim states it: with auth method "token", the call fails with
\* the ValueError and without a constructor call when GITGUARDIAN_API_KEY is
\* absent, and returns a key-authenticated client carrying the server name
\* whenever the variable is present.
C1_AsClaimed ==
    (ClientDone /\ MethodEnv = S_token) =>
        /\ KeyEnv = None => (RaisedMissingKey /\ ctor_calls = <<>>)
        /\ KeyEnv /= None => ReturnedKeyClient

\* C1 amended: with auth method "token", the call fails with the ValueError
\* and without a constructor call when GITGUARDIAN_API_KEY is absent or
\* empty; when it is present and non-empty the constructor is called once
\* with that key and no OAuth flag, and, unless the constructor raises, the
\* call returns that client with the server name attached.
C1_TokenAuth ==
    (ClientDone /\ auth_method = S_token) =>
        /\ ~Truthy(KeyEnv) => (RaisedMissingKey /\ ctor_calls = <<>>)
        /\ Truthy(KeyEnv) =>
              /\ Len(ctor_calls) = 1
              /\ ctor_calls[1].args = KeyArgs
              /\ ~CtorRaised => ReturnedKeyClient

C1_Witness ==
    /\ ClientDone /\ MethodEnv = S_token /\ Truthy(KeyEnv)
    /\ server_name /= None /\ ReturnedKeyClient

RaisedUnsupported(m) == raised = <<UnsupportedMethodError(m)>> /\ returned = <<>>

\* C3 as the claim states it: every value of GITGUARDIAN_AUTH_METHOD other
\* than "token" and "web" makes the call fail with the error naming the
\* method, and no client is constructed.
C3_AsClaimed ==
    (ClientDone /\ MethodEnv /= None /\ MethodEnv \notin {S_token, S_web}) =>
        /\ RaisedUnsupported(MethodEnv) \/ RaisedUnsupported(Lower(MethodEnv))
        /\ ctor_calls = <<>>

\* C3 amended: every value of GITGUARDIAN_AUTH_METHOD whose lower-cased form
\* is other than "token" and "web" makes the call fail with the error naming
\* the lower-cased method, and no client is constructed.
C3_Unsupported ==
    (ClientDone /\ MethodEnv /= None /\ Lower(MethodEnv) \notin {S_token, S_web}) =>
        /\ RaisedUnsupported(Lower(MethodEnv))
        /\ ctor_calls = <<>>

C3_Witness ==
    /\ ClientDone /\ MethodEnv = <<"B", "a", "s", "i", "c">>
    /\ RaisedUnsupported(S_basic)

\* C7: the constructor is called at most once per call of
\* get_gitguardian_client, and when it raises, the call raises that same
\* exception and returns no client.
C7_Propagates ==
    prog = "client" =>
        /\ Len(ctor_calls) <= 1
        /\ (pc = "done" /\ CtorRaised) =>
              (raised = ctor_calls[1].exc /\ returned = <<>>)

C7_Witness ==
    /\ ClientDone /\ auth_method = S_token /\ CtorRaised
    /\ raised = ctor_calls[1].exc

(***************************************************************************)
(* Properties of the release scripts                                       *)
(***************************************************************************)
\* the flags as the command line gives them
HasFlag(flags) == \E i \in DOMAIN argv : argv[i] \in flags
DryRunFlag == HasFlag({"--dry-run", "-d"})
TestFlag == HasFlag({"--test", "-t"})

\* the operator's answer is "y", letter case and surrounding blanks aside
AnsweredYes(typed) == Lower(Strip(typed)) = <<"y">>

IsTool(e) == e.cmd[1] \notin {"input", "Path.exists", "shutil.rmtree"}
IsTwine(e) == Len(e.cmd) >= 4 /\ SubSeq(e.cmd, 1, 4) = <<"uv", "run", "twine", "upload">>
IsCurl(e) == e.cmd[1] = "curl"
IsWhich(e) == e.cmd[1] = "which"
IsVersion(e) == e.cmd = <<"mcp-publisher", "--version">>
IsLogin(e) == e.cmd = <<"mcp-publisher", "login", "github">>
IsPublish(e) == e.cmd = <<"mcp-publisher", "publish">>
IsBuild(e) == e.cmd = <<"uv", "build">>
IsRmtree(e) == e.cmd[1] = "shutil.rmtree"
IsExists(e) == e.cmd[1] = "Path.exists"
IsMainConfirm(e) ==
    e.cmd \in { <<"input", "Continue? [y/N]: ">>,
                <<"input", "Continue with publication? [y/N]: ">> }
IsLoginPrompt(e) == e.cmd = <<"input", "Continue with GitHub login? [y/N]: ">>
IsTokenPrompt(e) ==
    e.cmd \in { <<"input", "Enter your PyPI API token: ">>,
                <<"input", "Enter your TestPyPI API token: ">> }

\* e reaches the network or changes state outside the process
NetworkOrMutating(e) ==
    IsCurl(e) \/ IsTwine(e) \/ IsLogin(e) \/ IsPublish(e) \/ IsBuild(e) \/ IsRmtree(e)

Some(P(_)) == \E i \in DOMAIN log : P(log[i])

\* the checks before the publish step of the registry script passed
RegistryChecksPassed ==
    /\ log /= <<>> /\ IsWhich(log[1]) /\ log[1].rc = 0
    /\ server_json /= NoFile
    /\ valid = <<TRUE>>

\* the checks before the upload step of the PyPI script passed
PypiChecksPassed ==
    /\ \E i \in DOMAIN log : IsWhich(log[i]) /\ log[i].rc = 0
    /\ \E i \in DOMAIN log : IsBuild(log[i]) /\ log[i].rc = 0

\* C4 as the claim states it: with the dry-run flag (registry script) or the
\* test flag (PyPI script) no network or state-mutating action happens, and
\* the script exits 0 if the preceding checks pass.
C4_AsClaimed ==
    ((prog = "registry" /\ DryRunFlag) \/ (prog = "pypi" /\ TestFlag)) =>
        /\ ~Some(NetworkOrMutating)
        /\ (pc = "done" /\ prog = "registry" /\ RegistryChecksPassed) => exit_code = <<0>>
        /\ (pc = "done" /\ prog = "pypi" /\ PypiChecksPassed) => exit_code = <<0>>

\* C4 amended: with --dry-run/-d the registry script prompts for nothing and
\* runs nothing but `which`, `mcp-publisher --version` and the read-only curl
\* probe of PyPI (never login or publish), and it exits 0 exactly when its
\* checks pass.  With --test/-t the PyPI script still cleans, builds and
\* uploads, but only to TestPyPI, and exits 0 only when the operator
\* declined or the upload exited 0.
C4_DryRun ==
    /\ (prog = "registry" /\ DryRunFlag) =>
          /\ \A i \in DOMAIN log : IsWhich(log[i]) \/ IsVersion(log[i]) \/ IsCurl(log[i])
          /\ pc = "done" => (exit_code = <<0>> <=> RegistryChecksPassed)
    /\ (prog = "pypi" /\ TestFlag) =>
          /\ \A i \in DOMAIN log :
                IsTwine(log[i]) =>
                   log[i].cmd = <<"uv", "run", "twine", "upload", "--repository",
                                  "testpypi", "dist/*">>
          /\ (pc = "done" /\ exit_code = <<0>>) =>
                \/ IsMainConfirm(log[Len(log)]) /\ ~AnsweredYes(log[Len(log)].data)
                \/ IsTwine(log[Len(log)]) /\ log[Len(log)].rc = 0

C4_Witness ==
    /\ prog = "registry" /\ argv = <<"-d">> /\ pc = "done" /\ exit_code = <<0>>
    /\ Some(IsCurl)

IsHardTool(e) == IsWhich(e) \/ IsBuild(e) \/ IsTwine(e) \/ IsPublish(e)

C6_AsClaimed ==
    (prog = "registry" /\ valid /= <<>>) =>
        /\ ~(RequiredSet \subseteq server_json.fields) => valid = <<FALSE>>
        /\ (server_json.wellformed /\ server_json.top = "obj"
              /\ RequiredSet \subseteq server_json.fields) => valid = <<TRUE>>

\* the position of the last event before k that is not the login command
BeforeLogin(k) == IF IsLogin(log[k - 1]) THEN k - 2 ELSE k - 1

\* C8 as the claim states it: without the dry-run flag, `mcp-publisher
\* publish` is run only after the binary check and the validation passed,
\* the operator answered "y" to the confirmation, and the login command ran.
C8_AsClaimed ==
    (prog = "registry" /\ ~DryRunFlag) =>
        \A k \in DOMAIN log :
            IsPublish(log[k]) =>
                /\ RegistryChecksPassed
                /\ \E i \in 1..(k - 1), j \in 1..(k - 1) :
                      /\ i < j
                      /\ IsMainConfirm(log[i]) /\ AnsweredYes(log[i].data)
                      /\ IsLogin(log[j])

\* C8 amended: without the dry-run flag, `mcp-publisher publish` is run only
\* as the last step, after the binary check and the validation passed, the
\* operator answered "y" to the confirmation and then was asked whether to
\* log in; `mcp-publisher login github` runs between that question and the
\* publish command exactly when the answer to it was "y".
C8_Order ==
    (prog = "registry" /\ ~DryRunFlag) =>
        \A k \in DOMAIN log :
            IsPublish(log[k]) =>
                /\ k = Len(log) /\ k >= 5
                /\ RegistryChecksPassed
                /\ IsVersion(log[2])
                /\ \A i \in 3..k : IsCurl(log[i]) => i = 3
                /\ IsLoginPrompt(log[BeforeLogin(k)])
                /\ IsLogin(log[k - 1]) <=> AnsweredYes(log[BeforeLogin(k)].data)
                /\ IsMainConfirm(log[BeforeLogin(k) - 1])
                /\ AnsweredYes(log[BeforeLogin(k) - 1].data)
                /\ BeforeLogin(k) - 1 \in {3, 4}

C8_Witness ==
    /\ prog = "registry" /\ ~DryRunFlag /\ pc = "done"
    /\ IsPublish(log[Len(log)]) /\ IsLogin(log[Len(log) - 1])

\* the variable the upload credential comes from
CredentialEnv == environ[IF TestFlag THEN "TEST_PYPI_TOKEN" ELSE "PYPI_TOKEN"]

\* the build tool exited 0 after the output directory was cleaned, before k
CleanedAndBuilt(k) ==
    \E i \in 1..(k - 1), j \in 1..(k - 1) :
        /\ i < j
        /\ IsExists(log[i])
        /\ log[i].data = <<"True">> => IsRmtree(log[i + 1])
        /\ IsBuild(log[j]) /\ log[j].rc = 0

\* the line typed at the token prompt, <<>> if there was no such prompt
TypedToken ==
    IF Some(IsTokenPrompt)
    THEN log[CHOOSE i \in DOMAIN log : IsTokenPrompt(log[i])].data
    ELSE <<>>

\* C9 as the claim states it: the upload runs only after the clean and a
\* build that exited 0, with a non-empty credential that is the environment
\* variable's value when set and non-empty and otherwise the value entered at
\* the prompt; if both are empty the script exits 1 without an upload.
C9_AsClaimed ==
    prog = "pypi" =>
        /\ \A k \in DOMAIN log :
              IsTwine(log[k]) =>
                 /\ CleanedAndBuilt(k)
                 /\ log[k].data /= <<>>
                 /\ log[k].data = IF Truthy(CredentialEnv) THEN CredentialEnv
                                  ELSE TypedToken
        /\ (~Truthy(CredentialEnv) /\ Some(IsTokenPrompt) /\ TypedToken = <<>>) =>
              (pc = "done" /\ exit_code = <<1>> /\ ~Some(IsTwine))

\* C9 amended: as claimed, but the credential taken from the prompt is the
\* value entered with its surrounding whitespace stripped, and the script
\* exits 1 without an upload when the variable is unset or empty and that
\* stripped value is empty.
C9_Upload ==
    prog = "pypi" =>
        /\ \A k \in DOMAIN log :
              IsTwine(log[k]) =>
                 /\ CleanedAndBuilt(k)
                 /\ log[k].data /= <<>>
                 /\ log[k].data = IF Truthy(CredentialEnv) THEN CredentialEnv
                                  ELSE Strip(TypedToken)
                 /\ Truthy(CredentialEnv) => ~Some(IsTokenPrompt)
        /\ (~Truthy(CredentialEnv) /\ Some(IsTokenPrompt) /\ Strip(TypedToken) = <<>>) =>
              (pc = "done" /\ exit_code = <<1>> /\ ~Some(IsTwine))

C9_Witness ==
    /\ prog = "pypi" /\ TestFlag /\ pc = "done"
    /\ IsTwine(log[Len(log)]) /\ Some(IsRmtree)
    /\ environ["TEST_PYPI_TOKEN"] = <<"t">> /\ log[Len(log)].data = <<"t">>

\* C10: in both scripts, an answer other than "y" (letter case and
\* surrounding whitespace aside) to the confirmation prompt of main is the
\* last thing that happens: the script is done with exit status 0, and no
\* upload, login or publish command has run or runs afterwards.
C10_Declined ==
    \A i \in DOMAIN log :
        (IsMainConfirm(log[i]) /\ ~AnsweredYes(log[i].data)) =>
            /\ i = Len(log)
            /\ pc = "done" /\ exit_code = <<0>>
            /\ ~Some(IsTwine) /\ ~Some(IsLogin) /\ ~Some(IsPublish)

C10_Witness ==
    /\ prog = "registry" /\ pc = "done" /\ exit_code = <<0>>
    /\ IsMainConfirm(log[Len(log)])
    /\ log[Len(log)].data = <<"y", "e", "s">>
====
